---- MODULE Spec2Model ----
(***************************************************************************)
(* finance-bro: the chat edge function, the profile edge function with the *)
(* profiles table, and the React App with its API client.                  *)
(*                                                                         *)
(* Numbers: Math.random() is a draw in tenths (0..9 stands for 0.0..0.9)   *)
(* and every numeric field is kept in hundredths, so                       *)
(* Math.random() * 100 + 50 is draw * 1000 + 5000.  Dates are day numbers. *)
(***************************************************************************)
EXTENDS Integers, Sequences, FiniteSets, TLC

VARIABLES
  env,              \* Deno.env of the edge functions: which variables are set
  analyses,         \* the stored analyses a share id resolves to: id -> bundle
  lastChat,         \* the chat function's last request, what it did, its response
  minted,           \* the shareIds the chat function has returned, in order (history)
  profiles,         \* the profiles table: a set of rows
  lastProfile,      \* the profile function's last request and response
  lastPost,         \* the last profile POST of a signed-in user (history)
  served,           \* requests made so far: to the functions, or calls of the API client
  message,          \* App state (useState), part_000:106-122
  showResult,
  isLoading,
  stockData,
  analysisText,
  stats,
  shareId,
  isAuthenticated,
  showAuthModal,
  session,          \* does the auth provider hold a session (a token) now
  pending,          \* API client calls awaiting their result: descriptor -> count
  submitBit,        \* flips on every run of App.handleSubmit (history)
  investmentProfile, \* App state, part_000:122
  profile,          \* InvestmentPanel state (useState), InvestmentPanel.tsx:49-52
  panelBit,         \* flips on every run of InvestmentPanel.handleSubmit (history)
  lastCall,         \* the API client's last call and how its promise settled
  authInbox,        \* results of the auth provider not yet delivered to
                    \* the App's callbacks: session carried -> count
  lastSignIn        \* the last run of App.handleSignIn (history)

vars == <<env, analyses, served, lastChat, minted, profiles, lastProfile, lastPost, message,
          showResult, isLoading, stockData, analysisText, stats, shareId,
          isAuthenticated, showAuthModal, session, pending, submitBit,
          investmentProfile, profile, panelBit, lastCall, authInbox, lastSignIn>>

chatVars == <<lastChat, minted>>
profileVars == <<profiles, lastProfile, lastPost>>
appVars == <<message, showResult, isLoading, stockData, analysisText, stats,
             shareId, isAuthenticated, showAuthModal, session, pending, submitBit>>
panelVars == <<investmentProfile, profile, panelBit>>
clientVars == <<lastCall>>
authVars == <<authInbox, lastSignIn>>

----------------------------------------------------------------------------
(* Bounds of the model *)

MaxSeed == 1        \* seeds of the Math.random stream: 0..MaxSeed
MaxUuid == 2        \* values crypto.randomUUID() can return: 1..MaxUuid
MaxPending == 2     \* API client calls in flight at once
MaxChatRequests == 2     \* requests to the chat function in a run
MaxProfileRequests == 2  \* requests to the profile function in a run
MaxClientCalls == 2      \* calls of the API client in a run
MaxAuthEvents == 2       \* results of the auth provider awaiting delivery
NumUsers == 2       \* users of the auth provider: 1..NumUsers

Seeds == 0..MaxSeed
Uuids == 1..MaxUuid
Users == 1..NumUsers
Now == 20000        \* the day of the request (a day number)

----------------------------------------------------------------------------
(* JavaScript values, as far as the handlers look at them *)

JsUndefined == [type |-> "undefined", str |-> "", num |-> 0]
JsNull == [type |-> "null", str |-> "", num |-> 0]
JsNum(n) == [type |-> "number", str |-> "", num |-> n]
JsStr(s) == [type |-> "string", str |-> s, num |-> 0]
JsObj == [type |-> "object", str |-> "", num |-> 0]

\* typeof v
TypeOf(v) == IF v.type = "null" THEN "object" ELSE v.type

\* !!v
Truthy(v) ==
  CASE v.type = "undefined" -> FALSE
    [] v.type = "null" -> FALSE
    [] v.type = "number" -> v.num # 0
    [] v.type = "string" -> v.str # ""
    [] OTHER -> TRUE

Reverse(s) == [i \in 1..Len(s) |-> s[Len(s) + 1 - i]]

Contains(s, x) == \E i \in DOMAIN s : s[i] = x

Range(s) == {s[i] : i \in DOMAIN s}

----------------------------------------------------------------------------
(* The chat function: supabase/functions/chat/index.ts *)

\* Request bodies: not JSON at all (or no body), JSON null, or an object
\* whose `message` is the given value (JsUndefined when the key is absent).
ChatBodies ==
  { [kind |-> "invalid", message |-> JsUndefined],
    [kind |-> "null", message |-> JsUndefined] }
  \cup { [kind |-> "object", message |-> m] :
           m \in { JsUndefined, JsNull, JsNum(0), JsNum(5), JsObj,
                   JsStr(""), JsStr(" "), JsStr("Should I buy AAPL?") } }

ChatMethods == {"OPTIONS", "POST", "GET"}

ChatRequests == [method : ChatMethods, body : ChatBodies]

\* `await req.json(); message = body.message` completes without throwing
BodyReadable(body) == body.kind = "object"

\* line 21, negated: the message passes the check
IsValidMessageNoTypeof(m) == Truthy(m)

IsValidMessage(m) == Truthy(m) /\ TypeOf(m) = "string"

\* The replies of the LLM provider to fetch(): a network failure, or a
\* status with a body.  body: "text" (not JSON), "null", "noChoices",
\* "emptyChoices", "contentMissing", "content" (choices[0].message.content
\* is the string `content`).
ContentPlain == "AAPL looks bullish."
ContentFenced == "Here is the JSON: {...}"
ContentObject == "{summary, technicalFactors, fundamentalFactors, outlook}"
ContentScalar == "42"
Contents == {ContentPlain, ContentFenced, ContentObject, ContentScalar}

StatusText(status) ==
  CASE status = 200 -> "OK"
    [] status = 201 -> "Created"
    [] status = 300 -> "Multiple Choices"
    [] status = 429 -> "Too Many Requests"
    [] status = 500 -> "Internal Server Error"
    [] OTHER -> ""

LlmStatuses == {200, 201, 300, 429, 500}

NoReply == [net |-> "none", status |-> 0, body |-> "", content |-> ""]

OkStatuses == {st \in LlmStatuses : st \in 200..299}

\* the body of a reply that is not ok is only read as text (line 82)
LlmReplies ==
  { [net |-> "failed", status |-> 0, body |-> "", content |-> ""] }
  \cup { [net |-> "ok", status |-> st, body |-> "text", content |-> ""] :
           st \in LlmStatuses \ OkStatuses }
  \cup { [net |-> "ok", status |-> st, body |-> b, content |-> ""] :
           st \in OkStatuses,
           b \in {"text", "null", "noChoices", "emptyChoices", "contentMissing"} }
  \cup { [net |-> "ok", status |-> st, body |-> "content", content |-> c] :
           st \in OkStatuses, c \in Contents }

\* response.ok
ResponseOk(reply) == reply.status \in 200..299

\* JSON.parse(content): does it return, and the own enumerable properties of
\* what it returns (what an object spread copies).
JsonValid(c) == c \in {ContentObject, ContentScalar}

JsonParse(c) ==
  IF c = ContentObject
  THEN [summary |-> "Bullish on AAPL", technicalFactors |-> <<"RSI 62">>,
        fundamentalFactors |-> <<"EPS growth">>, outlook |-> "Positive"]
  ELSE [parsed |-> c]

OwnProperties(c) == IF c = ContentObject THEN DOMAIN JsonParse(c) ELSE {}

\* lines 107-118, the catch branch made an error
ParseAnalysisStrict(c) ==
  IF JsonValid(c)
  THEN [threw |-> FALSE, value |-> JsonParse(c), keys |-> OwnProperties(c)]
  ELSE [threw |-> TRUE, value |-> [parsed |-> c], keys |-> {}]

\* lines 107-118
ParseAnalysis(c) ==
  IF JsonValid(c)
  THEN [threw |-> FALSE, value |-> JsonParse(c), keys |-> OwnProperties(c)]
  ELSE [threw |-> FALSE,
        value |-> [summary |-> c, technicalFactors |-> <<>>,
                   fundamentalFactors |-> <<>>,
                   outlook |-> "Unable to generate detailed analysis"],
        keys |-> {"summary", "technicalFactors", "fundamentalFactors", "outlook"}]

\* { ...analysisText, timestamp: new Date().toISOString() }, lines 168-171
WithTimestamp(parsed, now) ==
  [k \in parsed.keys \cup {"timestamp"} |->
     IF k = "timestamp" THEN now ELSE parsed.value[k]]

\* The k-th Math.random() of a request whose stream has the given seed.
Rand(seed, k) == (seed * 7 + k * 3 + (k \div 10)) % 10

NumRows == 30

\* One field of a row from its draw r, in hundredths (lines 126-145)
Price(r) == r * 1000 + 5000       \* Math.random() * 100 + 50
Volume(r) == r * 10000000         \* Math.random() * 1000000
Returns(r) == r - 5               \* Math.random() * 0.1 - 0.05
Atr(r) == r * 50                  \* Math.random() * 5
Momentum(r) == r * 100 - 500      \* Math.random() * 10 - 5
Natr(r) == r                      \* Math.random() * 0.1
Rsi(r) == r * 1000                \* Math.random() * 100

\* The row made at index i (0-based) of Array.from, lines 121-146:
\* dated i days before now, its 20 fields from the next 20 draws.
StockRow(i, now, seed) ==
  LET r(j) == Rand(seed, i * 20 + j)
  IN  [date |-> now - i, price |-> Price(r(0)), open |-> Price(r(1)),
       high |-> Price(r(2)), low |-> Price(r(3)), volume |-> Volume(r(4)),
       returns |-> Returns(r(5)), ma20 |-> Price(r(6)), ma50 |-> Price(r(7)),
       ma200 |-> Price(r(8)), atr |-> Atr(r(9)), obv |-> Volume(r(10)),
       ad |-> Volume(r(11)), momentum |-> Momentum(r(12)),
       roc |-> Momentum(r(13)), natr |-> Natr(r(14)), rsi |-> Rsi(r(15)),
       macd |-> Momentum(r(16)), macd_signal |-> Momentum(r(17)),
       bb_upper |-> Price(r(18)), bb_lower |-> Price(r(19))]

\* Array.from({length: 30}, ...).reverse() with one row too few
StockDataShort(now, seed) ==
  Reverse([n \in 1..(NumRows - 1) |-> StockRow(n - 1, now, seed)])

\* Array.from({length: 30}, ...) without the reverse()
StockDataUnreversed(now, seed) ==
  [n \in 1..NumRows |-> StockRow(n - 1, now, seed)]

\* Array.from({length: 30}, ...).reverse(), lines 121-147
StockDataAt(now, seed) ==
  Reverse([n \in 1..NumRows |-> StockRow(n - 1, now, seed)])

\* the same, computed once for each seed at the day Now
StockDataToday == [seed \in Seeds |-> StockDataAt(Now, seed)]

StockData(now, seed) ==
  IF now = Now /\ seed \in Seeds THEN StockDataToday[seed]
  ELSE StockDataAt(now, seed)

\* lines 150-159: six more draws
Stats(seed) ==
  LET base == NumRows * 20
  IN  [technical |->
         [atr |-> Atr(Rand(seed, base)),
          natr |-> Natr(Rand(seed, base + 1)),
          obv |-> Volume(Rand(seed, base + 2)),
          ad_line |-> Volume(Rand(seed, base + 3)),
          momentum |-> Momentum(Rand(seed, base + 4)),
          roc |-> Momentum(Rand(seed, base + 5))]]

Preflight == [preflight |-> TRUE]

\* new Response(JSON.stringify(body), {status})
JsonResponse(status, body) == [status |-> status, body |-> body]

\* the catch at the function boundary answering without the error message
ServerErrorBare(msg, now) ==
  JsonResponse(500, [timestamp |-> now])

\* The catch at the function boundary, lines 180-196
ServerError(msg, now) ==
  JsonResponse(500, [error |-> <<msg>>, timestamp |-> now])

\* lines 94-179 with a shareId that is not drawn anew
ChatSuccessFixedId(reply, seed, uuid, now) ==
  IF reply.body = "text"
    THEN ServerError("Unexpected token in JSON", now)
  ELSE IF reply.body = "null"
    THEN ServerError("Cannot read properties of null (reading choices)", now)
  ELSE IF reply.body \in {"noChoices", "emptyChoices"}
    THEN ServerError("No choices returned from API.", now)
  ELSE IF reply.body = "contentMissing"
    THEN ServerError("Cannot read properties of undefined (reading slice)", now)
  ELSE LET parsed == ParseAnalysis(reply.content)
       IN  JsonResponse(200,
             [stockData |-> StockData(now, seed),
              analysisText |-> WithTimestamp(parsed, now),
              stats |-> Stats(seed),
              shareId |-> 1])

\* lines 94-179: the provider answered 2xx
ChatSuccess(reply, seed, uuid, now) ==
  IF reply.body = "text"
    THEN ServerError("Unexpected token in JSON", now)
  ELSE IF reply.body = "null"
    THEN ServerError("Cannot read properties of null (reading choices)", now)
  ELSE IF reply.body \in {"noChoices", "emptyChoices"}
    THEN ServerError("No choices returned from API.", now)
  ELSE IF reply.body = "contentMissing"
    THEN ServerError("Cannot read properties of undefined (reading slice)", now)
  ELSE LET parsed == ParseAnalysis(reply.content)
       IN  IF parsed.threw
           THEN ServerError("Unexpected token in JSON", now)
           ELSE JsonResponse(200,
                  [stockData |-> StockData(now, seed),
                   analysisText |-> WithTimestamp(parsed, now),
                   stats |-> Stats(seed),
                   shareId |-> uuid])

\* lines 70-179: after the fetch
AfterFetch(reply, seed, uuid, now) ==
  IF reply.net = "failed"
    THEN ServerError("error sending request", now)
  ELSE IF ~ResponseOk(reply)
    THEN JsonResponse(reply.status,
           [error |-> <<"DeepSeek API error:", ToString(reply.status),
                        StatusText(reply.status), "-", "provider error text">>])
  ELSE ChatSuccess(reply, seed, uuid, now)

\* lines 9-42: what the handler answers before it calls the provider, if
\* it answers there
BeforeFetch(req, apiKeySet) ==
  IF req.method = "OPTIONS"
    THEN [done |-> TRUE, resp |-> JsonResponse(200, Preflight)]
  ELSE IF ~BodyReadable(req.body) \/ ~IsValidMessage(req.body.message)
    THEN [done |-> TRUE,
          resp |-> JsonResponse(400, [error |-> <<"Invalid JSON body">>])]
  ELSE IF ~apiKeySet
    THEN [done |-> TRUE,
          resp |-> JsonResponse(500, [error |-> <<"Missing API key">>])]
  ELSE [done |-> FALSE, resp |-> JsonResponse(0, Preflight)]

\* the handler with a second fetch after a failed one
ChatHandlerRetry(req, apiKeySet, reply, seed, uuid, now) ==
  LET pre == BeforeFetch(req, apiKeySet)
  IN  IF pre.done
      THEN [resp |-> pre.resp, calls |-> 0]
      ELSE [resp |-> AfterFetch(reply, seed, uuid, now),
            calls |-> IF reply.net = "ok" /\ ResponseOk(reply) THEN 1 ELSE 2]

\* The whole handler, lines 9-197.  calls: the fetches to the provider made.
ChatHandler(req, apiKeySet, reply, seed, uuid, now) ==
  LET pre == BeforeFetch(req, apiKeySet)
  IN  IF pre.done
      THEN [resp |-> pre.resp, calls |-> 0]
      ELSE [resp |-> AfterFetch(reply, seed, uuid, now), calls |-> 1]

----------------------------------------------------------------------------
(* Share retrieval: the function behind ApiClient.getSharedAnalysis          *)
(* (`analysis/<id>`).  Its code is not among the sources; it is the lookup   *)
(* the specification describes: the stored bundle, or not found.             *)

AnalysisLookup(store, id) ==
  IF id \in DOMAIN store
  THEN JsonResponse(200, store[id])
  ELSE JsonResponse(404, [error |-> <<"Analysis not found">>])

\* An analysis stored earlier (three parts, as the chat function shapes them)
StoredBundle ==
  [stockData |-> StockData(Now - 1, 0),
   analysisText |-> WithTimestamp(ParseAnalysis(ContentObject), Now - 1),
   stats |-> Stats(0)]

EmptyStore == [i \in {} |-> StoredBundle]

Stores == {EmptyStore, [i \in {1} |-> StoredBundle]}

----------------------------------------------------------------------------
(* The profiles table: supabase/migrations.  A row is a function from the   *)
(* columns to integers; 0 stands for NULL.                                   *)

\* create table profiles (...) and the columns added by ALTER TABLE
ProfileColumns ==
  {"id", "email", "age", "risk_tolerance", "investment_goal",
   "investment_horizon", "initial_investment", "created_at", "updated_at",
   "monthly_contribution", "preferred_asset_types"}

\* primary key, and the columns set NOT NULL without a default
NotNullColumns ==
  {"id", "initial_investment", "monthly_contribution", "preferred_asset_types"}

DbError(msg) == [ok |-> FALSE, error |-> msg, row |-> [c \in {} |-> 0]]
DbData(row) == [ok |-> TRUE, error |-> "", row |-> row]

\* .from('profiles').select('*').eq(col, val).single()
DbSelectSingle(table, col, val) ==
  IF col \notin ProfileColumns
    THEN DbError("column profiles." \o col \o " does not exist")
  ELSE LET rows == {r \in table : r[col] = val}
       IN  IF Cardinality(rows) = 1
           THEN DbData(CHOOSE r \in rows : TRUE)
           ELSE DbError("JSON object requested, multiple (or no) rows returned")

\* The row an upsert leaves for the payload: the payload's columns over the
\* row with the same id, or over NULLs and the defaults of a new row.
UpsertRow(table, payload, now) ==
  LET old == {r \in table : r["id"] = payload["id"]}
      base == IF old = {}
              THEN [c \in ProfileColumns |->
                      IF c \in {"created_at", "updated_at"} THEN now ELSE 0]
              ELSE CHOOSE r \in old : TRUE
  IN  [c \in ProfileColumns |->
         IF c \in DOMAIN payload THEN payload[c] ELSE base[c]]

\* .from('profiles').upsert(payload).select().single(): the result, and the
\* table after it (conflict target: the primary key)
DbUpsert(table, payload, now) ==
  IF ~(DOMAIN payload \subseteq ProfileColumns)
    THEN [result |-> DbError("Could not find the column of profiles in the schema cache"),
          table |-> table]
  ELSE IF "id" \notin DOMAIN payload
    THEN [result |-> DbError("null value in column id violates not-null constraint"),
          table |-> table]
  ELSE IF payload["id"] \notin Users
    THEN [result |-> DbError("violates foreign key constraint"), table |-> table]
  ELSE LET row == UpsertRow(table, payload, now)
       IN  IF \E c \in NotNullColumns : row[c] = 0
           THEN [result |-> DbError("null value violates not-null constraint"),
                 table |-> table]
           ELSE [result |-> DbData(row),
                 table |-> {r \in table : r["id"] # row["id"]} \cup {row}]

----------------------------------------------------------------------------
(* The profile function: supabase/functions/profile/index.ts *)

ClientKeys ==
  {"age", "riskTolerance", "investmentGoal", "timeHorizon",
   "initialInvestment", "monthlyContribution", "preferredAssetTypes"}

\* a fieldMapping that sends two client names to one column
fieldMappingMerging ==
  [timeHorizon |-> "investment_goal",
   riskTolerance |-> "risk_tolerance",
   investmentGoal |-> "investment_goal",
   initialInvestment |-> "initial_investment",
   monthlyContribution |-> "monthly_contribution",
   preferredAssetTypes |-> "preferred_asset_types"]

\* fieldMapping, lines 12-19
fieldMapping ==
  [timeHorizon |-> "investment_horizon",
   riskTolerance |-> "risk_tolerance",
   investmentGoal |-> "investment_goal",
   initialInvestment |-> "initial_investment",
   monthlyContribution |-> "monthly_contribution",
   preferredAssetTypes |-> "preferred_asset_types"]

\* reverseFieldMapping, lines 22-25
reverseFieldMapping ==
  [v \in {fieldMapping[k] : k \in DOMAIN fieldMapping} |->
     CHOOSE k \in DOMAIN fieldMapping : fieldMapping[k] = v]

\* The reduce of lines 66-73, 89-96 and 111-118 over Object.entries in
\* order: a key the mapping has is renamed, any other key is kept; a later
\* entry overwrites an earlier one of the same name.
RECURSIVE RenameKeys(_, _)
RenameKeys(entries, mapping) ==
  IF entries = <<>> THEN [k \in {} |-> 0]
  ELSE LET n == Len(entries)
           acc == RenameKeys(SubSeq(entries, 1, n - 1), mapping)
           e == entries[n]
           key == IF e.key \in DOMAIN mapping THEN mapping[e.key] ELSE e.key
       IN  [k \in DOMAIN acc \cup {key} |-> IF k = key THEN e.val ELSE acc[k]]

\* The entries of the object that the assignments acc[key] = val leave, made
\* in the order given: a key stays where it was first inserted and carries
\* the value assigned last
RECURSIVE AssignAll(_)
AssignAll(entries) ==
  IF entries = <<>> THEN <<>>
  ELSE LET n == Len(entries)
           acc == AssignAll(SubSeq(entries, 1, n - 1))
           e == entries[n]
       IN  IF \E i \in DOMAIN acc : acc[i].key = e.key
           THEN [i \in DOMAIN acc |-> IF acc[i].key = e.key THEN e ELSE acc[i]]
           ELSE Append(acc, e)

\* Object.entries of the object a renaming reduce returns (lines 89-96,
\* 111-118)
RenamedEntries(entries, mapping) ==
  AssignAll([i \in DOMAIN entries |->
               [key |-> IF entries[i].key \in DOMAIN mapping
                        THEN mapping[entries[i].key] ELSE entries[i].key,
                val |-> entries[i].val]])

\* the object JSON.parse gives for a body with these entries (line 86)
ObjectOf(entries) == RenameKeys(entries, [k \in {} |-> ""])

\* lines 89-96 and then 111-118: client names to columns, and back
RoundTrip(entries) ==
  RenameKeys(RenamedEntries(entries, fieldMapping), reverseFieldMapping)

\* Object.entries of a row read from the table, in column order
ColumnOrder ==
  <<"id", "email", "age", "risk_tolerance", "investment_goal",
    "investment_horizon", "initial_investment", "created_at", "updated_at",
    "monthly_contribution", "preferred_asset_types">>

RowEntries(row) ==
  [i \in 1..Len(ColumnOrder) |-> [key |-> ColumnOrder[i], val |-> row[ColumnOrder[i]]]]

\* { user_id: user.id, ...mappedProfile, updated_at: now }, lines 100-104
UpsertPayload(user, mapped, now) ==
  [k \in {"user_id", "updated_at"} \cup DOMAIN mapped |->
     IF k = "updated_at" THEN now
     ELSE IF k \in DOMAIN mapped THEN mapped[k]
     ELSE user]

\* Requests.  auth: is there an Authorization header, and the user its token
\* resolves to (0: to none).  body: the JSON object as its entries in order,
\* or not an object.
ProfileMethods == {"OPTIONS", "GET", "POST", "PUT"}

KeyOrders ==
  { <<"riskTolerance">>,
    <<"timeHorizon", "age">>,
    <<"riskTolerance", "risk_tolerance">>,
    <<"risk_tolerance", "riskTolerance">>,
    <<"user_id", "riskTolerance">>,
    <<"age", "riskTolerance", "investmentGoal", "timeHorizon",
      "initialInvestment", "monthlyContribution", "preferredAssetTypes">>,
    <<"userId", "age", "riskTolerance", "investmentGoal", "timeHorizon",
      "initialInvestment", "monthlyContribution", "preferredAssetTypes">>,
    <<"id", "age", "riskTolerance", "investmentGoal", "timeHorizon",
      "initialInvestment", "monthlyContribution", "preferredAssetTypes">> }

\* Values of profile fields: the function never looks at them
ProfileValues == {1, 2}

IdKeys == {"id", "user_id", "userId"}

\* the client-facing keys carry v, the keys naming a user carry w, any
\* other key carries the value that is not v
EntriesOf(ks, v, w) ==
  [i \in 1..Len(ks) |->
     [key |-> ks[i],
      val |-> IF ks[i] \in ClientKeys THEN v
              ELSE IF ks[i] \in IdKeys THEN w
              ELSE CHOOSE x \in ProfileValues : x # v]]

NoEntries == [i \in {} |-> [key |-> "", val |-> 0]]

ProfileBodies ==
  { [kind |-> "invalid", entries |-> NoEntries] }
  \cup { [kind |-> "object", entries |-> EntriesOf(ks, v, w)] :
           ks \in KeyOrders, v \in ProfileValues, w \in Users }

AuthHeaders ==
  { [present |-> FALSE, user |-> 0], [present |-> TRUE, user |-> 0] }
  \cup { [present |-> TRUE, user |-> u] : u \in Users }

NoDbOp == [op |-> "none", payload |-> [k \in {} |-> 0]]

ProfileError(msg) == JsonResponse(400, [error |-> msg])

\* The whole handler, lines 27-139: the response, the operation it ran on
\* the profiles table, and the table after it.
ProfileHandler(req, table, url, key, now) ==
  IF req.method = "OPTIONS"
    THEN [resp |-> JsonResponse(200, Preflight), db |-> NoDbOp, table |-> table]
  ELSE IF ~url
    THEN [resp |-> ProfileError("supabaseUrl is required."), db |-> NoDbOp,
          table |-> table]
  ELSE IF ~key
    THEN [resp |-> ProfileError("supabaseKey is required."), db |-> NoDbOp,
          table |-> table]
  ELSE IF ~req.auth.present
    THEN [resp |-> ProfileError("No authorization header"), db |-> NoDbOp,
          table |-> table]
  ELSE IF req.auth.user = 0
    THEN [resp |-> ProfileError("Invalid token"), db |-> NoDbOp, table |-> table]
  ELSE IF req.method = "GET"
    THEN LET got == DbSelectSingle(table, "user_id", req.auth.user)
         IN  [resp |-> IF got.ok
                       THEN JsonResponse(200,
                              RenameKeys(RowEntries(got.row), reverseFieldMapping))
                       ELSE ProfileError(got.error),
              db |-> [op |-> "select", payload |-> [k \in {} |-> 0]],
              table |-> table]
  ELSE IF req.method = "POST"
    THEN IF req.body.kind # "object"
         THEN [resp |-> ProfileError("Unexpected end of JSON input"),
               db |-> NoDbOp, table |-> table]
         ELSE LET mapped == RenameKeys(req.body.entries, fieldMapping)
                  payload == UpsertPayload(req.auth.user, mapped, now)
                  done == DbUpsert(table, payload, now)
              IN  [resp |-> IF done.result.ok
                            THEN JsonResponse(200,
                                   RenameKeys(RowEntries(done.result.row),
                                              reverseFieldMapping))
                            ELSE ProfileError(done.result.error),
                   db |-> [op |-> "upsert", payload |-> payload],
                   table |-> done.table]
  ELSE [resp |-> ProfileError("Method not allowed"), db |-> NoDbOp, table |-> table]

----------------------------------------------------------------------------
(* Initial values *)

NoChatRequest == [method |-> "NONE", body |-> [kind |-> "invalid", message |-> JsUndefined]]

NoChat ==
  [req |-> NoChatRequest, reply |-> NoReply,
   resp |-> JsonResponse(0, Preflight), calls |-> 0]

EnvAllSet ==
  [DEEPSEEK_API_KEY |-> TRUE, SUPABASE_URL |-> TRUE,
   SUPABASE_SERVICE_ROLE_KEY |-> TRUE]

NoProfileRequest ==
  [method |-> "NONE", auth |-> [present |-> FALSE, user |-> 0],
   resp |-> JsonResponse(0, Preflight), db |-> NoDbOp]

NoPost == [user |-> 0, entries |-> NoEntries]

\* A row the table may hold from before (user 1's)
ExistingRow ==
  [c \in ProfileColumns |->
     IF c \in {"created_at", "updated_at"} THEN Now - 1 ELSE 1]

\* API client calls: a chat call carrying msg, or a share load of id.
\* sent: a token was at hand when the call was made, so the function is
\* invoked (ApiClient.request, part_000:471-474).
Messages == {"", "   ", "Should I buy AAPL?"}

\* message.trim()
Trim(m) == IF m = "   " THEN "" ELSE m

ChatCalls ==
  { [kind |-> "chat", sent |-> b, msg |-> m, id |-> 0] :
      b \in BOOLEAN, m \in {x \in Messages : Trim(x) # ""} }

\* the ids of the share links opened: one that is stored, one that is not
ShareIds == {1, 2}

ShareCalls ==
  { [kind |-> "share", sent |-> b, msg |-> "", id |-> i] :
      b \in BOOLEAN, i \in ShareIds }

Calls == ChatCalls \cup ShareCalls

RECURSIVE SumOver(_, _)
SumOver(f, S) ==
  IF S = {} THEN 0
  ELSE LET x == CHOOSE y \in S : TRUE IN f[x] + SumOver(f, S \ {x})

PendingTotal == SumOver(pending, Calls)

\* chat calls that reached the function and are not yet answered
ChatInFlight == SumOver(pending, {d \in ChatCalls : d.sent})

\* runs of handleSubmit past its guards that have not settled
ChatPending == SumOver(pending, ChatCalls)

\* useState of InvestmentPanel, InvestmentPanel.tsx:49-52: the keys not
\* given are undefined
InitialProfile ==
  [age |-> JsUndefined, riskTolerance |-> JsNum(5),
   investmentGoal |-> JsUndefined, timeHorizon |-> JsUndefined,
   initialInvestment |-> JsUndefined, monthlyContribution |-> JsUndefined,
   preferredAssetTypes |-> <<>>]

\* nothing of the auth provider is awaiting delivery
NoAuthEvents == [s \in BOOLEAN |-> 0]

\* handleSignIn has not run
NoSignIn ==
  [bit |-> FALSE, provider |-> "", email |-> "", password |-> "",
   calls |-> <<>>, results |-> <<>>, error |-> <<>>, closed |-> FALSE]

\* no call of the API client yet
NoCall ==
  [method |-> "none", user |-> 0, token |-> FALSE, settled |-> "none",
   value |-> [none |-> TRUE]]

InitShared ==
  /\ investmentProfile = JsNull
  /\ profile = InitialProfile
  /\ panelBit = FALSE
  /\ lastCall = NoCall
  /\ authInbox = NoAuthEvents
  /\ lastSignIn = NoSignIn
  /\ served = 0
  /\ lastChat = NoChat
  /\ minted = <<>>
  /\ profiles = {}
  /\ lastProfile = NoProfileRequest
  /\ lastPost = NoPost
  /\ message = ""
  /\ showResult = FALSE
  /\ isLoading = FALSE
  /\ stockData = <<>>
  /\ analysisText = JsNull
  /\ stats = JsNull
  /\ shareId = 0
  /\ isAuthenticated = FALSE
  /\ showAuthModal = FALSE
  /\ pending = [d \in Calls |-> 0]
  /\ submitBit = FALSE

----------------------------------------------------------------------------
(* One request to the chat function, from any HTTP client *)

\* The draws (Math.random, crypto.randomUUID) are made only on the path
\* that reaches line 121.  crypto.randomUUID returns a value it has not
\* returned before.
ChatRequest ==
  /\ served < MaxChatRequests
  /\ served' = served + 1
  /\ \E req \in ChatRequests :
       IF BeforeFetch(req, env.DEEPSEEK_API_KEY).done
       THEN LET r == ChatHandler(req, env.DEEPSEEK_API_KEY, NoReply, 0, 0, Now)
            IN  /\ lastChat' = [req |-> req, reply |-> NoReply, resp |-> r.resp,
                                calls |-> r.calls]
                /\ minted' = minted
       ELSE \E reply \in LlmReplies :
              IF ChatHandler(req, env.DEEPSEEK_API_KEY, reply, 0, 0, Now).resp.status # 200
              THEN LET r == ChatHandler(req, env.DEEPSEEK_API_KEY, reply, 0, 0, Now)
                   IN  /\ lastChat' = [req |-> req, reply |-> reply,
                                       resp |-> r.resp, calls |-> r.calls]
                       /\ minted' = minted
              ELSE \E seed \in Seeds, uuid \in Uuids \ Range(minted) :
                     LET r == ChatHandler(req, env.DEEPSEEK_API_KEY, reply, seed,
                                          uuid, Now)
                     IN  /\ lastChat' = [req |-> req, reply |-> reply,
                                         resp |-> r.resp, calls |-> r.calls]
                         /\ minted' = Append(minted, r.resp.body.shareId)
  /\ UNCHANGED <<authVars, panelVars, clientVars, env, analyses, profileVars, appVars>>

----------------------------------------------------------------------------
(* One request to the profile function, from any HTTP client *)

\* A body matters only to a POST
ProfileRequests ==
  [method : ProfileMethods \ {"POST"}, auth : AuthHeaders,
   body : {[kind |-> "invalid", entries |-> NoEntries]}]
  \cup [method : {"POST"}, auth : AuthHeaders, body : ProfileBodies]

ProfileRequest ==
  /\ served < MaxProfileRequests
  /\ served' = served + 1
  /\ \E req \in ProfileRequests :
       LET r == ProfileHandler(req, profiles, env.SUPABASE_URL,
                               env.SUPABASE_SERVICE_ROLE_KEY, Now)
       IN  /\ profiles' = r.table
           /\ lastProfile' = [method |-> req.method, auth |-> req.auth,
                              resp |-> r.resp, db |-> r.db]
           /\ lastPost' = IF req.method = "POST" /\ req.auth.present
                             /\ req.auth.user # 0 /\ req.body.kind = "object"
                          THEN [user |-> req.auth.user, entries |-> req.body.entries]
                          ELSE lastPost
  /\ UNCHANGED <<authVars, panelVars, clientVars, env, analyses, chatVars, appVars>>

----------------------------------------------------------------------------
(* The App (part_000:105-322) and the API client (part_000:457-672) *)

\* What the chat function can answer to the App's call.  The App hands
\* stockData, analysisText and stats on without looking inside, so one seed
\* and one reply of each kind stand for all.
AppSeeds == {0}

AppLlmReplies ==
  { [net |-> "failed", status |-> 0, body |-> "", content |-> ""],
    [net |-> "ok", status |-> 500, body |-> "text", content |-> ""],
    [net |-> "ok", status |-> 200, body |-> "content", content |-> ContentObject] }

\* supabase.functions.invoke and the rest of ApiClient.request, lines
\* 476-493: a non-2xx answer is an error, any other is the data
ApiResult(resp) ==
  IF resp.status \in 200..299
  THEN [ok |-> TRUE, data |-> resp.body]
  ELSE [ok |-> FALSE, data |-> [error |-> "Edge Function returned a non-2xx status code"]]

NoTokenResult ==
  [ok |-> FALSE, data |-> [error |-> "No authentication token available"]]

AddCall(d) == pending' = [pending EXCEPT ![d] = @ + 1]
RemoveCall(d) == pending' = [pending EXCEPT ![d] = @ - 1]

\* typing, or a click on an example of the landing page
SetMessage ==
  /\ \E m \in Messages : message' = m
  /\ UNCHANGED <<authVars, panelVars, clientVars, env, analyses, served, chatVars, profileVars, showResult, isLoading,
                 stockData, analysisText, stats, shareId, isAuthenticated,
                 showAuthModal, session, pending, submitBit>>

\* handleSubmit without lines 180-183
HandleSubmitNoAuthCheck ==
  /\ PendingTotal < MaxPending
  /\ submitBit' = ~submitBit
  /\ IF Trim(message) = ""
     THEN UNCHANGED <<isLoading, pending, showAuthModal>>
     ELSE /\ isLoading' = TRUE
          /\ AddCall([kind |-> "chat", sent |-> session, msg |-> message, id |-> 0])
          /\ UNCHANGED showAuthModal
  /\ UNCHANGED <<authVars, panelVars, clientVars, env, analyses, served, chatVars, profileVars, message, showResult,
                 stockData, analysisText, stats, shareId, isAuthenticated,
                 session>>

\* handleSubmit with the check of isAuthenticated before the check of the
\* message
HandleSubmitAuthFirst ==
  /\ PendingTotal < MaxPending
  /\ submitBit' = ~submitBit
  /\ IF ~isAuthenticated
     THEN /\ showAuthModal' = TRUE
          /\ UNCHANGED <<isLoading, pending>>
     ELSE IF Trim(message) = ""
     THEN UNCHANGED <<isLoading, pending, showAuthModal>>
     ELSE /\ isLoading' = TRUE
          /\ AddCall([kind |-> "chat", sent |-> session, msg |-> message, id |-> 0])
          /\ UNCHANGED showAuthModal
  /\ UNCHANGED <<authVars, panelVars, clientVars, env, analyses, served, chatVars, profileVars, message, showResult,
                 stockData, analysisText, stats, shareId, isAuthenticated,
                 session>>

\* handleSubmit up to its await, lines 176-187, with the token read of
\* ApiClient.request
HandleSubmit ==
  /\ PendingTotal < MaxPending
  /\ submitBit' = ~submitBit
  /\ IF Trim(message) = ""
     THEN UNCHANGED <<isLoading, pending, showAuthModal>>
     ELSE IF ~isAuthenticated
     THEN /\ showAuthModal' = TRUE
          /\ UNCHANGED <<isLoading, pending>>
     ELSE /\ isLoading' = TRUE
          /\ AddCall([kind |-> "chat", sent |-> session, msg |-> message, id |-> 0])
          /\ UNCHANGED showAuthModal
  /\ UNCHANGED <<authVars, panelVars, clientVars, env, analyses, served, chatVars, profileVars, message, showResult,
                 stockData, analysisText, stats, shareId, isAuthenticated,
                 session>>

\* the continuation with a catch that also resets the view
ChatSettleErrorResets ==
  /\ \E d \in ChatCalls :
       /\ pending[d] > 0
       /\ RemoveCall(d)
       /\ \E reply \in AppLlmReplies, seed \in AppSeeds, uuid \in Uuids :
            LET req == [method |-> "POST",
                        body |-> [kind |-> "object", message |-> JsStr(d.msg)]]
                response ==
                  IF d.sent
                  THEN ApiResult(ChatHandler(req, env.DEEPSEEK_API_KEY, reply,
                                             seed, uuid, Now).resp)
                  ELSE NoTokenResult
            IN  IF response.ok
                THEN /\ stockData' = response.data.stockData
                     /\ analysisText' = response.data.analysisText
                     /\ stats' = response.data.stats
                     /\ shareId' = response.data.shareId
                     /\ showResult' = TRUE
                ELSE /\ showResult' = FALSE
                     /\ stockData' = <<>>
                     /\ UNCHANGED <<analysisText, stats, shareId>>
  /\ isLoading' = FALSE
  /\ message' = ""
  /\ UNCHANGED <<authVars, panelVars, clientVars, env, analyses, served, chatVars, profileVars, isAuthenticated,
                 showAuthModal, session, submitBit>>

\* the continuation with the reset of isLoading and message at the end of
\* the try block instead of in a finally
ChatSettleNoFinally ==
  /\ \E d \in ChatCalls :
       /\ pending[d] > 0
       /\ RemoveCall(d)
       /\ \E reply \in AppLlmReplies, seed \in AppSeeds, uuid \in Uuids :
            LET req == [method |-> "POST",
                        body |-> [kind |-> "object", message |-> JsStr(d.msg)]]
                response ==
                  IF d.sent
                  THEN ApiResult(ChatHandler(req, env.DEEPSEEK_API_KEY, reply,
                                             seed, uuid, Now).resp)
                  ELSE NoTokenResult
            IN  IF response.ok
                THEN /\ stockData' = response.data.stockData
                     /\ analysisText' = response.data.analysisText
                     /\ stats' = response.data.stats
                     /\ shareId' = response.data.shareId
                     /\ showResult' = TRUE
                     /\ isLoading' = FALSE
                     /\ message' = ""
                ELSE UNCHANGED <<stockData, analysisText, stats, shareId,
                                 showResult, isLoading, message>>
  /\ UNCHANGED <<authVars, panelVars, clientVars, env, analyses, served, chatVars, profileVars, isAuthenticated,
                 showAuthModal, session, submitBit>>

\* The chat call settles and handleSubmit resumes, lines 187-201.  The App
\* hands the shareId on without comparing it, so which one the response
\* carries is left open here.
ChatSettle ==
  /\ \E d \in ChatCalls :
       /\ pending[d] > 0
       /\ RemoveCall(d)
       /\ \E reply \in AppLlmReplies, seed \in AppSeeds, uuid \in Uuids :
            LET req == [method |-> "POST",
                        body |-> [kind |-> "object", message |-> JsStr(d.msg)]]
                response ==
                  IF d.sent
                  THEN ApiResult(ChatHandler(req, env.DEEPSEEK_API_KEY, reply,
                                             seed, uuid, Now).resp)
                  ELSE NoTokenResult
            IN  IF response.ok
                THEN /\ stockData' = response.data.stockData
                     /\ analysisText' = response.data.analysisText
                     /\ stats' = response.data.stats
                     /\ shareId' = response.data.shareId
                     /\ showResult' = TRUE
                ELSE UNCHANGED <<stockData, analysisText, stats, shareId, showResult>>
  /\ isLoading' = FALSE
  /\ message' = ""
  /\ UNCHANGED <<authVars, panelVars, clientVars, env, analyses, served, chatVars, profileVars, isAuthenticated,
                 showAuthModal, session, submitBit>>

\* The share-link effect, lines 152-162: /share/<id> is opened
OpenShareLink ==
  /\ PendingTotal < MaxPending
  /\ \E i \in ShareIds :
       AddCall([kind |-> "share", sent |-> session, msg |-> "", id |-> i])
  /\ UNCHANGED <<authVars, panelVars, clientVars, env, analyses, served, chatVars, profileVars, message, showResult,
                 isLoading, stockData, analysisText, stats, shareId,
                 isAuthenticated, showAuthModal, session, submitBit>>

\* loadSharedAnalysis storing the rows of the response and nothing else
ShareSettleRowsOnly ==
  /\ \E d \in ShareCalls :
       /\ pending[d] > 0
       /\ RemoveCall(d)
       /\ LET response == IF d.sent
                          THEN ApiResult(AnalysisLookup(analyses, d.id))
                          ELSE NoTokenResult
          IN  IF response.ok
              THEN /\ stockData' = response.data.stockData
                   /\ showResult' = TRUE
                   /\ UNCHANGED <<analysisText, stats, shareId>>
              ELSE UNCHANGED <<stockData, analysisText, stats, shareId, showResult>>
  /\ UNCHANGED <<authVars, panelVars, clientVars, env, analyses, served, chatVars, profileVars, message, isLoading,
                 isAuthenticated, showAuthModal, session, submitBit>>

\* The share load settles and loadSharedAnalysis resumes, lines 162-173
ShareSettle ==
  /\ \E d \in ShareCalls :
       /\ pending[d] > 0
       /\ RemoveCall(d)
       /\ LET response == IF d.sent
                          THEN ApiResult(AnalysisLookup(analyses, d.id))
                          ELSE NoTokenResult
          IN  IF response.ok
              THEN /\ stockData' = response.data.stockData
                   /\ analysisText' = response.data.analysisText
                   /\ stats' = response.data.stats
                   /\ shareId' = d.id
                   /\ showResult' = TRUE
              ELSE UNCHANGED <<stockData, analysisText, stats, shareId, showResult>>
  /\ UNCHANGED <<authVars, panelVars, clientVars, env, analyses, served, chatVars, profileVars, message, isLoading,
                 isAuthenticated, showAuthModal, session, submitBit>>

\* The auth provider gains or loses its session (sign-in, sign-out, expiry)
SessionChange ==
  /\ session' = ~session
  /\ UNCHANGED <<authVars, panelVars, clientVars, env, analyses, served, chatVars, profileVars, message, showResult,
                 isLoading, stockData, analysisText, stats, shareId,
                 isAuthenticated, showAuthModal, pending, submitBit>>

\* The callbacks of the auth effect, lines 127-145
AuthStateChange ==
  /\ isAuthenticated' = session
  /\ UNCHANGED <<authVars, panelVars, clientVars, env, analyses, served, chatVars, profileVars, message, showResult,
                 isLoading, stockData, analysisText, stats, shareId,
                 showAuthModal, session, pending, submitBit>>

\* handleSignIn, lines 204-243, when the sign-in raised no error: the modal
\* closes; a password sign-in has a session by then, an OAuth sign-in gets
\* its session after the redirect.  With an error nothing changes.
HandleSignIn ==
  /\ showAuthModal
  /\ \E gained \in BOOLEAN : session' = (session \/ gained)
  /\ showAuthModal' = FALSE
  /\ UNCHANGED <<authVars, panelVars, clientVars, env, analyses, served, chatVars, profileVars, message, showResult,
                 isLoading, stockData, analysisText, stats, shareId,
                 isAuthenticated, pending, submitBit>>

\* handleLogoClick toggling the result view
HandleLogoClickToggles ==
  /\ showResult' = ~showResult
  /\ message' = ""
  /\ UNCHANGED <<authVars, panelVars, clientVars, env, analyses, served, chatVars, profileVars, isLoading, stockData,
                 analysisText, stats, shareId, isAuthenticated, showAuthModal,
                 session, pending, submitBit>>

\* the page shown inside AnimatePresence, lines 281-299
RenderState ==
  IF isLoading THEN "loading"
  ELSE IF showResult THEN "result"
  ELSE "landing"

\* lines 245-248
HandleLogoClick ==
  /\ showResult' = FALSE
  /\ message' = ""
  /\ UNCHANGED <<authVars, panelVars, clientVars, env, analyses, served, chatVars, profileVars, isLoading, stockData,
                 analysisText, stats, shareId, isAuthenticated, showAuthModal,
                 session, pending, submitBit>>

\* AuthenticationModal onClose, line 316
CloseAuthModal ==
  /\ showAuthModal' = FALSE
  /\ UNCHANGED <<authVars, panelVars, clientVars, env, analyses, served, chatVars, profileVars, message, showResult,
                 isLoading, stockData, analysisText, stats, shareId,
                 isAuthenticated, session, pending, submitBit>>

----------------------------------------------------------------------------
(* Sign-in (part_000:204-243, AuthenticationModal.tsx) and the auth effect  *)
(* (part_000:127-145) with the provider's results in flight                 *)

\* What a call of supabase.auth answers: { error } with a message, no error,
\* or an exception.  A message is a sequence of phrases.
AuthOk == [threw |-> FALSE, message |-> <<>>]
AuthError(phrase) == [threw |-> FALSE, message |-> <<phrase>>]
AuthThrow == [threw |-> TRUE, message |-> <<"Failed to fetch">>]

PasswordResults ==
  {AuthOk, AuthError("Invalid login credentials"),
   AuthError("Email not confirmed"), AuthThrow}

SignUpResults == {AuthOk, AuthError("User already registered"), AuthThrow}

OAuthResults == {AuthOk, AuthError("Unsupported provider"), AuthThrow}

\* the end of handleSignIn without line 236: the modal is closed whatever
\* the last call answered
FinishSignInAlwaysCloses(calls, results) ==
  LET last == IF results = <<>> THEN AuthOk ELSE results[Len(results)]
  IN  [calls |-> calls, results |-> results, error |-> last.message,
       closed |-> TRUE]

\* lines 236-240: an error or an exception goes to the catch; with none the
\* modal is closed
FinishSignIn(calls, results) ==
  LET last == IF results = <<>> THEN AuthOk ELSE results[Len(results)]
  IN  [calls |-> calls, results |-> results, error |-> last.message,
       closed |-> last = AuthOk]

\* handleSignIn, lines 204-243, as a function of its arguments and of what
\* the calls of supabase.auth answer
HandleSignInResult(provider, email, password, oauth, pw, su) ==
  IF provider # ""
    THEN FinishSignIn(<<"signInWithOAuth">>, <<oauth>>)
  ELSE IF email # "" /\ password # ""
    THEN IF ~pw.threw /\ Contains(pw.message, "Invalid login credentials")
         THEN FinishSignIn(<<"signInWithPassword", "signUp">>, <<pw, su>>)
         ELSE FinishSignIn(<<"signInWithPassword">>, <<pw>>)
  ELSE FinishSignIn(<<>>, <<>>)

\* What the modal calls onSignIn with: the Google button (line 54), or the
\* form (lines 28-31), whose submit button is disabled while the email or
\* the password is empty (line 92)
SignInInputs ==
  { [provider |-> "google", email |-> "", password |-> ""],
    [provider |-> "", email |-> "m@example.com", password |-> "secret"] }

\* What the provider answers to the calls of one run: only the answers to
\* calls that can follow one another are told apart
SignInAnswers ==
  { [oauth |-> o, pw |-> AuthOk, su |-> AuthOk, confirmAsked |-> FALSE] :
      o \in OAuthResults }
  \cup { [oauth |-> AuthOk, pw |-> p, su |-> AuthOk, confirmAsked |-> FALSE] :
           p \in PasswordResults }
  \cup { [oauth |-> AuthOk, pw |-> AuthError("Invalid login credentials"),
          su |-> s, confirmAsked |-> c] :
           s \in SignUpResults, c \in BOOLEAN }

InboxTotal == authInbox[TRUE] + authInbox[FALSE]

\* the provider hands a result carrying session s to the App's callbacks
Emit(s) == authInbox' = [authInbox EXCEPT ![s] = @ + 1]

\* A run of handleSignIn from the open modal.  A password sign-in that
\* succeeds leaves a session, a sign-up that succeeds leaves one when no
\* confirmation of the email is asked for, an OAuth sign-in gets its session
\* after the redirect; the provider reports the new session to its
\* listeners.
HandleSignInRun ==
  /\ showAuthModal
  /\ ~isLoading
  /\ InboxTotal < MaxAuthEvents
  /\ \E in \in SignInInputs, answers \in SignInAnswers :
       LET oauth == answers.oauth
           pw == answers.pw
           su == answers.su
           confirmAsked == answers.confirmAsked
           run == HandleSignInResult(in.provider, in.email, in.password,
                                     oauth, pw, su)
           signedIn == /\ run.closed
                       /\ in.provider = ""
                       /\ (Len(run.calls) = 1 \/ ~confirmAsked)
       IN  /\ lastSignIn' = [bit |-> ~lastSignIn.bit, provider |-> in.provider,
                             email |-> in.email, password |-> in.password,
                             calls |-> run.calls, results |-> run.results,
                             error |-> run.error, closed |-> run.closed]
           /\ showAuthModal' = IF run.closed THEN FALSE ELSE showAuthModal
           /\ IF signedIn
              THEN session' = TRUE /\ Emit(TRUE)
              ELSE UNCHANGED <<session, authInbox>>
  /\ UNCHANGED <<panelVars, clientVars, env, analyses, served, chatVars,
                 profileVars, message, showResult, isLoading, stockData,
                 analysisText, stats, shareId, isAuthenticated, pending,
                 submitBit>>

\* The provider gains or loses its session by other means (sign-out, expiry,
\* return from the OAuth redirect) and reports it to its listeners
ProviderSessionChange ==
  /\ InboxTotal < MaxAuthEvents
  /\ session' = ~session
  /\ Emit(~session)
  /\ UNCHANGED <<lastSignIn, panelVars, clientVars, env, analyses, served,
                 chatVars, profileVars, message, showResult, isLoading,
                 stockData, analysisText, stats, shareId, isAuthenticated,
                 showAuthModal, pending, submitBit>>

\* A callback of the auth effect runs with the session it was handed: the
\* then of getSession (lines 129-134) or the listener (lines 137-142)
DeliverAuth ==
  /\ \E s \in BOOLEAN :
       /\ authInbox[s] > 0
       /\ authInbox' = [authInbox EXCEPT ![s] = @ - 1]
       /\ isAuthenticated' = s
  /\ UNCHANGED <<lastSignIn, panelVars, clientVars, env, analyses, served,
                 chatVars, profileVars, message, showResult, isLoading,
                 stockData, analysisText, stats, shareId, showAuthModal,
                 session, pending, submitBit>>

----------------------------------------------------------------------------
(* The API client called as a library (part_000:457-672) *)

\* { data }, line 489, or { error }, line 492
ResponseObject(result) ==
  IF result.ok THEN [data |-> result.data] ELSE [error |-> result.data.error]

\* supabase.functions.invoke could not reach the function, lines 484-487
InvokeFailed ==
  [ok |-> FALSE, data |-> [error |-> "Failed to send a request to the Edge Function"]]

\* ApiClient.request, lines 463-494.  token: getAuthToken returned one;
\* net: the invoke reached the function; resp: what the function answered.
Request(token, net, resp) ==
  IF ~token THEN NoTokenResult
  ELSE IF ~net THEN InvokeFailed
  ELSE ApiResult(resp)

\* how the promise of an async method settles
Resolved(result) == [settled |-> "resolved", value |-> ResponseObject(result)]
Rejected(msg) == [settled |-> "rejected", value |-> [message |-> msg]]

\* sendMessage, lines 496-547
SendMessage(token, net, resp) == Resolved(Request(token, net, resp))

\* getSharedAnalysis, lines 629-635 (the methods of lines 549-627 have the
\* same shape: return this.request(...))
GetSharedAnalysis(token, net, resp) == Resolved(Request(token, net, resp))

\* saveUserProfile, lines 637-656.  user: what supabase.auth.getUser()
\* returned (0: null)
SaveUserProfile(user, token, net, resp) ==
  IF user = 0 THEN Rejected("No authenticated user")
  ELSE Resolved(Request(token, net, resp))

\* getUserProfile, lines 658-671
GetUserProfile(user, token, net, resp) ==
  IF user = 0 THEN Rejected("No authenticated user")
  ELSE Resolved(Request(token, net, resp))

\* the keys of an InvestmentProfile, InvestmentPanel.tsx:10-18
PanelKeys ==
  <<"age", "riskTolerance", "investmentGoal", "timeHorizon",
    "initialInvestment", "monthlyContribution", "preferredAssetTypes">>

\* { userId: user.id, ...profile }, lines 651-654
SaveUserProfileBody(user, v) ==
  [kind |-> "object", entries |-> EntriesOf(<<"userId">> \o PanelKeys, v, user)]

CallRecord(method, user, token, outcome) ==
  [method |-> method, user |-> user, token |-> token,
   settled |-> outcome.settled, value |-> outcome.value]

ClientSendMessage ==
  /\ served < MaxClientCalls
  /\ served' = served + 1
  /\ \E token \in BOOLEAN, net \in BOOLEAN, reply \in AppLlmReplies,
        seed \in AppSeeds, uuid \in Uuids \ Range(minted) :
       LET req == [method |-> "POST",
                   body |-> [kind |-> "object",
                             message |-> JsStr("Should I buy AAPL?")]]
           r == ChatHandler(req, env.DEEPSEEK_API_KEY, reply, seed, uuid, Now)
       IN  /\ lastCall' = CallRecord("sendMessage", 0, token,
                                     SendMessage(token, net, r.resp))
           /\ lastChat' = IF token /\ net
                          THEN [req |-> req, reply |-> reply, resp |-> r.resp,
                                calls |-> r.calls]
                          ELSE lastChat
           /\ minted' = IF token /\ net /\ r.resp.status = 200
                        THEN Append(minted, r.resp.body.shareId)
                        ELSE minted
  /\ UNCHANGED <<authVars, panelVars, env, analyses, profileVars, appVars>>

ClientGetSharedAnalysis ==
  /\ served < MaxClientCalls
  /\ served' = served + 1
  /\ \E token \in BOOLEAN, net \in BOOLEAN, id \in ShareIds :
       lastCall' = CallRecord("getSharedAnalysis", 0, token,
                     GetSharedAnalysis(token, net, AnalysisLookup(analyses, id)))
  /\ UNCHANGED <<authVars, panelVars, env, analyses, chatVars, profileVars, appVars>>

\* the user the function resolves the token of the session of user to: that
\* user, or none when the token has expired
TokenUsers(user) == {0, user}

ClientSaveUserProfile ==
  /\ served < MaxClientCalls
  /\ served' = served + 1
  /\ \E user \in {0} \cup Users, token \in BOOLEAN, net \in BOOLEAN,
        v \in ProfileValues :
       \E tokenUser \in TokenUsers(user) :
         LET req == [method |-> "POST",
                     auth |-> [present |-> TRUE, user |-> tokenUser],
                     body |-> SaveUserProfileBody(user, v)]
             r == ProfileHandler(req, profiles, env.SUPABASE_URL,
                                 env.SUPABASE_SERVICE_ROLE_KEY, Now)
             reached == user # 0 /\ token /\ net
         IN  /\ lastCall' = CallRecord("saveUserProfile", user, token,
                                       SaveUserProfile(user, token, net, r.resp))
             /\ profiles' = IF reached THEN r.table ELSE profiles
             /\ lastProfile' = IF reached
                               THEN [method |-> req.method, auth |-> req.auth,
                                     resp |-> r.resp, db |-> r.db]
                               ELSE lastProfile
             /\ lastPost' = IF reached /\ tokenUser # 0
                            THEN [user |-> tokenUser, entries |-> req.body.entries]
                            ELSE lastPost
  /\ UNCHANGED <<authVars, panelVars, env, analyses, chatVars, appVars>>

ClientGetUserProfile ==
  /\ served < MaxClientCalls
  /\ served' = served + 1
  /\ \E user \in {0} \cup Users, token \in BOOLEAN, net \in BOOLEAN :
       \E tokenUser \in TokenUsers(user) :
         LET req == [method |-> "POST",
                     auth |-> [present |-> TRUE, user |-> tokenUser],
                     body |-> [kind |-> "invalid", entries |-> NoEntries]]
             r == ProfileHandler(req, profiles, env.SUPABASE_URL,
                                 env.SUPABASE_SERVICE_ROLE_KEY, Now)
             reached == user # 0 /\ token /\ net
         IN  /\ lastCall' = CallRecord("getUserProfile", user, token,
                                       GetUserProfile(user, token, net, r.resp))
             /\ lastProfile' = IF reached
                               THEN [method |-> req.method, auth |-> req.auth,
                                     resp |-> r.resp, db |-> r.db]
                               ELSE lastProfile
  /\ UNCHANGED <<authVars, panelVars, env, analyses, chatVars, profiles, lastPost, appVars>>

----------------------------------------------------------------------------
(* InvestmentPanel (InvestmentPanel.tsx:48-237) and the App's onSubmit      *)
(* (part_000:261-266)                                                       *)

\* What the inputs of the form can put into each key of the profile
FieldValues ==
  [age |-> {JsUndefined, JsNum(0), JsNum(30)},
   riskTolerance |-> {JsNum(5), JsNum(7)},
   investmentGoal |-> {JsUndefined, JsStr("Retirement Planning")},
   timeHorizon |-> {JsUndefined, JsStr("Long-term (7+ years)")},
   initialInvestment |-> {JsUndefined, JsNum(0), JsNum(1000)},
   monthlyContribution |-> {JsUndefined, JsNum(0), JsNum(100)},
   preferredAssetTypes |-> {<<>>, <<"Stocks">>}]

\* isValidProfile, lines 61-71
IsValidProfile(p) ==
  /\ Truthy(p.age)
  /\ Truthy(p.riskTolerance)
  /\ Truthy(p.investmentGoal)
  /\ Truthy(p.timeHorizon)
  /\ Truthy(p.initialInvestment)
  /\ Truthy(p.monthlyContribution)
  /\ Len(p.preferredAssetTypes) # 0

\* the user of the App's session
SessionUser == CHOOSE u \in Users : TRUE

\* an onChange / onValueChange / onClick of the form: setProfile({...profile, k: v})
SetProfile ==
  /\ \E k \in DOMAIN FieldValues :
       \E v \in FieldValues[k] : profile' = [profile EXCEPT ![k] = v]
  /\ UNCHANGED <<authVars, investmentProfile, panelBit, clientVars, env, analyses, served, chatVars,
                 profileVars, appVars>>

\* InvestmentPanel.handleSubmit, lines 54-59, and the onSubmit the App gives
\* it, part_000:262-264.  The submit button is disabled while isLoading.
PanelSubmit ==
  /\ ~isLoading
  /\ panelBit' = ~panelBit
  /\ investmentProfile' = IF IsValidProfile(profile) THEN profile
                          ELSE investmentProfile
  /\ UNCHANGED <<authVars, profile, clientVars, env, analyses, served, chatVars,
                 profileVars, appVars>>

\* a GET to the profile function, from any HTTP client
ProfileGet ==
  /\ served < MaxProfileRequests
  /\ served' = served + 1
  /\ \E auth \in AuthHeaders :
       LET req == [method |-> "GET", auth |-> auth,
                   body |-> [kind |-> "invalid", entries |-> NoEntries]]
           r == ProfileHandler(req, profiles, env.SUPABASE_URL,
                               env.SUPABASE_SERVICE_ROLE_KEY, Now)
       IN  /\ profiles' = r.table
           /\ lastProfile' = [method |-> req.method, auth |-> req.auth,
                              resp |-> r.resp, db |-> r.db]
  /\ UNCHANGED <<authVars, panelVars, clientVars, env, analyses, chatVars, lastPost, appVars>>

----------------------------------------------------------------------------
(* Specifications: each function under any HTTP client, and the App *)

InitChat ==
  /\ env \in [DEEPSEEK_API_KEY : BOOLEAN, SUPABASE_URL : {TRUE},
              SUPABASE_SERVICE_ROLE_KEY : {TRUE}]
  /\ analyses \in Stores
  /\ session = FALSE
  /\ InitShared

NextChat == ChatRequest

SpecChat == InitChat /\ [][NextChat]_vars

InitProfile ==
  /\ env \in [DEEPSEEK_API_KEY : {TRUE}, SUPABASE_URL : BOOLEAN,
              SUPABASE_SERVICE_ROLE_KEY : BOOLEAN]
  /\ analyses = EmptyStore
  /\ session = FALSE
  /\ investmentProfile = JsNull
  /\ profile = InitialProfile
  /\ panelBit = FALSE
  /\ lastCall = NoCall
  /\ authInbox = NoAuthEvents
  /\ lastSignIn = NoSignIn
  /\ served = 0
  /\ lastChat = NoChat
  /\ minted = <<>>
  /\ profiles \in {{}, {ExistingRow}}
  /\ lastProfile = NoProfileRequest
  /\ lastPost = NoPost
  /\ message = ""
  /\ showResult = FALSE
  /\ isLoading = FALSE
  /\ stockData = <<>>
  /\ analysisText = JsNull
  /\ stats = JsNull
  /\ shareId = 0
  /\ isAuthenticated = FALSE
  /\ showAuthModal = FALSE
  /\ pending = [d \in Calls |-> 0]
  /\ submitBit = FALSE

NextProfile == ProfileRequest

SpecProfile == InitProfile /\ [][NextProfile]_vars

InitApp ==
  /\ env = EnvAllSet
  /\ analyses = [i \in {1} |-> StoredBundle]
  /\ session \in BOOLEAN
  /\ InitShared

NextApp ==
  \/ SetMessage
  \/ HandleSubmit
  \/ ChatSettle
  \/ OpenShareLink
  \/ ShareSettle
  \/ SessionChange
  \/ AuthStateChange
  \/ HandleSignIn
  \/ HandleLogoClick
  \/ CloseAuthModal

SpecApp == InitApp /\ [][NextApp]_vars

\* The App of a user who has signed in, when every chat call it makes
\* settles: the promise of ApiClient.sendMessage resolves or rejects, and
\* handleSubmit resumes (part_000:187-201).  The session may be lost at any
\* time; a call made after that settles with the error of the missing token.
InitAppLive ==
  /\ env = EnvAllSet
  /\ analyses = [i \in {1} |-> StoredBundle]
  /\ session = TRUE
  /\ investmentProfile = JsNull
  /\ profile = InitialProfile
  /\ panelBit = FALSE
  /\ lastCall = NoCall
  /\ authInbox = NoAuthEvents
  /\ lastSignIn = NoSignIn
  /\ served = 0
  /\ lastChat = NoChat
  /\ minted = <<>>
  /\ profiles = {}
  /\ lastProfile = NoProfileRequest
  /\ lastPost = NoPost
  /\ message = ""
  /\ showResult = FALSE
  /\ isLoading = FALSE
  /\ stockData = <<>>
  /\ analysisText = JsNull
  /\ stats = JsNull
  /\ shareId = 0
  /\ isAuthenticated = TRUE
  /\ showAuthModal = FALSE
  /\ pending = [d \in Calls |-> 0]
  /\ submitBit = FALSE

NextAppLive ==
  \/ SetMessage
  \/ HandleSubmit
  \/ ChatSettle
  \/ OpenShareLink
  \/ ShareSettle
  \/ SessionChange
  \/ HandleLogoClick

SpecAppLive == InitAppLive /\ [][NextAppLive]_vars /\ WF_vars(ChatSettle)

\* The two functions, each answering the first request of a deployment, with
\* any of the environment variables set or missing
InitFunctions ==
  /\ env \in [DEEPSEEK_API_KEY : BOOLEAN, SUPABASE_URL : BOOLEAN,
              SUPABASE_SERVICE_ROLE_KEY : BOOLEAN]
  /\ analyses = EmptyStore
  /\ session = FALSE
  /\ investmentProfile = JsNull
  /\ profile = InitialProfile
  /\ panelBit = FALSE
  /\ lastCall = NoCall
  /\ authInbox = NoAuthEvents
  /\ lastSignIn = NoSignIn
  /\ served = 0
  /\ lastChat = NoChat
  /\ minted = <<>>
  /\ profiles \in {{}, {ExistingRow}}
  /\ lastProfile = NoProfileRequest
  /\ lastPost = NoPost
  /\ message = ""
  /\ showResult = FALSE
  /\ isLoading = FALSE
  /\ stockData = <<>>
  /\ analysisText = JsNull
  /\ stats = JsNull
  /\ shareId = 0
  /\ isAuthenticated = FALSE
  /\ showAuthModal = FALSE
  /\ pending = [d \in Calls |-> 0]
  /\ submitBit = FALSE

FirstChatRequest == served = 0 /\ ChatRequest

FirstProfileRequest == served = 0 /\ ProfileRequest

NextFunctions == FirstChatRequest \/ FirstProfileRequest

SpecFunctions == InitFunctions /\ [][NextFunctions]_vars

\* The panel in the App of a signed-in user
InitPanel ==
  /\ env = EnvAllSet
  /\ analyses = EmptyStore
  /\ session = TRUE
  /\ investmentProfile = JsNull
  /\ profile = InitialProfile
  /\ panelBit = FALSE
  /\ lastCall = NoCall
  /\ authInbox = NoAuthEvents
  /\ lastSignIn = NoSignIn
  /\ served = 0
  /\ lastChat = NoChat
  /\ minted = <<>>
  /\ profiles \in {{}, {ExistingRow}}
  /\ lastProfile = NoProfileRequest
  /\ lastPost = NoPost
  /\ message = ""
  /\ showResult = FALSE
  /\ isLoading = FALSE
  /\ stockData = <<>>
  /\ analysisText = JsNull
  /\ stats = JsNull
  /\ shareId = 0
  /\ isAuthenticated = TRUE
  /\ showAuthModal = FALSE
  /\ pending = [d \in Calls |-> 0]
  /\ submitBit = FALSE

NextPanel ==
  \/ SetProfile
  \/ PanelSubmit
  \/ ProfileGet

SpecPanel == InitPanel /\ [][NextPanel]_vars

\* The App at mount, its getSession under way: the result carries the
\* session the provider held when it was read
InitAuth ==
  /\ env = EnvAllSet
  /\ analyses = [i \in {1} |-> StoredBundle]
  /\ session \in BOOLEAN
  /\ authInbox = [NoAuthEvents EXCEPT ![session] = 1]
  /\ lastSignIn = NoSignIn
  /\ investmentProfile = JsNull
  /\ profile = InitialProfile
  /\ panelBit = FALSE
  /\ lastCall = NoCall
  /\ served = 0
  /\ lastChat = NoChat
  /\ minted = <<>>
  /\ profiles = {}
  /\ lastProfile = NoProfileRequest
  /\ lastPost = NoPost
  /\ message = ""
  /\ showResult = FALSE
  /\ isLoading = FALSE
  /\ stockData = <<>>
  /\ analysisText = JsNull
  /\ stats = JsNull
  /\ shareId = 0
  /\ isAuthenticated = FALSE
  /\ showAuthModal = FALSE
  /\ pending = [d \in Calls |-> 0]
  /\ submitBit = FALSE

NextAuth ==
  \/ SetMessage
  \/ HandleSubmit
  \/ ChatSettle
  \/ CloseAuthModal
  \/ ProviderSessionChange
  \/ DeliverAuth

SpecAuth == InitAuth /\ [][NextAuth]_vars

\* The App with its modal: sign-in is the only way the session changes
NextSignIn ==
  \/ SetMessage
  \/ HandleSubmit
  \/ ChatSettle
  \/ CloseAuthModal
  \/ HandleSignInRun
  \/ DeliverAuth

SpecSignIn == InitAuth /\ [][NextSignIn]_vars

InitClient ==
  /\ env = EnvAllSet
  /\ analyses \in Stores
  /\ session = FALSE
  /\ investmentProfile = JsNull
  /\ profile = InitialProfile
  /\ panelBit = FALSE
  /\ lastCall = NoCall
  /\ authInbox = NoAuthEvents
  /\ lastSignIn = NoSignIn
  /\ served = 0
  /\ lastChat = NoChat
  /\ minted = <<>>
  /\ profiles \in {{}, {ExistingRow}}
  /\ lastProfile = NoProfileRequest
  /\ lastPost = NoPost
  /\ message = ""
  /\ showResult = FALSE
  /\ isLoading = FALSE
  /\ stockData = <<>>
  /\ analysisText = JsNull
  /\ stats = JsNull
  /\ shareId = 0
  /\ isAuthenticated = FALSE
  /\ showAuthModal = FALSE
  /\ pending = [d \in Calls |-> 0]
  /\ submitBit = FALSE

NextClient ==
  \/ ClientSendMessage
  \/ ClientGetSharedAnalysis
  \/ ClientSaveUserProfile
  \/ ClientGetUserProfile

SpecClient == InitClient /\ [][NextClient]_vars

Init ==
  InitChat \/ InitProfile \/ InitApp \/ InitClient \/ InitFunctions \/ InitPanel
    \/ InitAppLive \/ InitAuth

Next ==
  NextChat \/ NextProfile \/ NextApp \/ NextClient \/ NextPanel \/ NextAuth
    \/ NextSignIn

Spec == Init /\ [][Next]_vars

----------------------------------------------------------------------------
(* Properties of the chat function (SpecChat) *)

\* the request the chat function handled last, if it handled one
ChatHandled == lastChat.req.method \in {"POST", "GET"}

ChatMessage == lastChat.req.body.message

\* the message of the last request is a non-empty string
ChatMessageValid ==
  /\ ChatHandled
  /\ lastChat.req.body.kind = "object"
  /\ ChatMessage.type = "string"
  /\ ChatMessage.str # ""

\* C1: a chat request whose body has no message field, or a message that is
\* not a string, is answered with status 400 and a body with an error
\* string, and the LLM provider is not called during the request.
C1_NoMessageIs400 ==
  (ChatHandled /\ (lastChat.req.body.kind # "object"
                     \/ TypeOf(ChatMessage) # "string"))
    => /\ lastChat.resp.status = 400
       /\ "error" \in DOMAIN lastChat.resp.body
       /\ lastChat.resp.body.error # <<>>
       /\ lastChat.calls = 0

\* a truthy message that is a number was sent, and refused
C1_Witness ==
  /\ lastChat.req.method = "POST"
  /\ lastChat.req.body.kind = "object"
  /\ ChatMessage = JsNum(5)
  /\ lastChat.resp.status = 400
  /\ lastChat.calls = 0

\* C2: when the provider answers 2xx with a reply whose content is not valid
\* JSON, the chat function answers 200 with analysisText.summary equal to
\* the raw reply text and with empty technicalFactors and
\* fundamentalFactors.
C2_MalformedReplyDegrades ==
  (/\ lastChat.calls = 1
   /\ lastChat.reply.net = "ok"
   /\ lastChat.reply.status \in 200..299
   /\ lastChat.reply.body = "content"
   /\ lastChat.reply.content \in {ContentPlain, ContentFenced})
    => /\ lastChat.resp.status = 200
       /\ lastChat.resp.body.analysisText.summary = lastChat.reply.content
       /\ lastChat.resp.body.analysisText.technicalFactors = <<>>
       /\ lastChat.resp.body.analysisText.fundamentalFactors = <<>>

\* the provider answered 200 with JSON wrapped in prose, and the request
\* succeeded with the raw text as summary
C2_Witness ==
  /\ lastChat.calls = 1
  /\ lastChat.reply.status = 200
  /\ lastChat.reply.content = ContentFenced
  /\ lastChat.resp.status = 200
  /\ lastChat.resp.body.analysisText.summary = ContentFenced

DocumentedFields ==
  {"price", "open", "high", "low", "volume", "returns", "ma20", "ma50",
   "ma200", "atr", "obv", "ad", "momentum", "roc", "natr", "rsi", "macd",
   "macd_signal", "bb_upper", "bb_lower"}

\* the response carries exactly 30 rows, each with every documented field,
\* numeric
ThirtyFullRows ==
  /\ lastChat.resp.status = 200
  /\ "stockData" \in DOMAIN lastChat.resp.body
  /\ Len(lastChat.resp.body.stockData) = 30
  /\ \A i \in 1..30 :
       \A f \in DocumentedFields :
         /\ f \in DOMAIN lastChat.resp.body.stockData[i]
         /\ lastChat.resp.body.stockData[i][f] \in Int

C8_AsStated ==
  (lastChat.calls = 1 /\ lastChat.reply.net = "ok"
     /\ lastChat.reply.status \notin 200..299)
    => /\ lastChat.resp.status \in 400..599
       /\ "error" \in DOMAIN lastChat.resp.body
       /\ Contains(lastChat.resp.body.error, StatusText(lastChat.reply.status))
       /\ "stockData" \notin DOMAIN lastChat.resp.body
       /\ "shareId" \notin DOMAIN lastChat.resp.body

\* C10, as stated: the shareId of a successful chat response identifies the
\* analysis of that request: a share lookup with that id returns the same
\* three-part bundle the response carried, and an id that was never minted
\* is not found.
C10_AsStated ==
  (lastChat.resp.status = 200 /\ "shareId" \in DOMAIN lastChat.resp.body)
    => /\ LET found == AnalysisLookup(analyses, lastChat.resp.body.shareId)
          IN  /\ found.status = 200
              /\ found.body.stockData = lastChat.resp.body.stockData
              /\ found.body.analysisText = lastChat.resp.body.analysisText
              /\ found.body.stats = lastChat.resp.body.stats
       /\ \A id \in Uuids :
            (id # lastChat.resp.body.shareId /\ id \notin DOMAIN analyses)
              => AnalysisLookup(analyses, id).status = 404

\* C17: no shareId is returned twice: any two successful chat responses,
\* also of two requests in a row with the same message, carry different
\* shareIds.
C17_ShareIdsFresh ==
  /\ \A i, j \in DOMAIN minted : i # j => minted[i] # minted[j]
  /\ (lastChat.resp.status = 200 /\ "shareId" \in DOMAIN lastChat.resp.body)
       => /\ minted # <<>>
          /\ minted[Len(minted)] = lastChat.resp.body.shareId

\* two requests have succeeded
C17_Witness ==
  /\ served = 2
  /\ Len(minted) = 2
  /\ lastChat.resp.status = 200

\* C18: a request with a valid message and a configured API key makes exactly
\* one call to the provider, also when the provider fails; every other
\* request makes none; and the response is the one the handler gives for
\* this request, this provider reply and its own draws, whatever was
\* requested before.
C18_OneRoundTrip ==
  lastChat.req.method # "NONE"
    => /\ lastChat.calls = IF ChatMessageValid /\ env.DEEPSEEK_API_KEY
                           THEN 1 ELSE 0
       /\ \E seed \in Seeds, uuid \in Uuids :
            lastChat.resp = ChatHandler(lastChat.req, env.DEEPSEEK_API_KEY,
                                        lastChat.reply, seed, uuid, Now).resp

\* a second request, whose provider call failed, was answered
C18_Witness ==
  /\ served = 2
  /\ lastChat.calls = 1
  /\ lastChat.reply.status = 500
  /\ lastChat.resp.status = 500

\* the rows of the last response, when it carries rows
RowsReturned ==
  IF lastChat.resp.status = 200 /\ "stockData" \in DOMAIN lastChat.resp.body
  THEN lastChat.resp.body.stockData
  ELSE <<>>

\* C23: the stockData rows of a chat response are a daily series in
\* ascending order: the row at 0-based index k is dated 29-k days before the
\* day of the request, consecutive rows are one day apart, the first row is
\* the oldest and the last row is dated the day of the request.
C23_DailySeries ==
  RowsReturned # <<>>
    => /\ \A n \in DOMAIN RowsReturned :
            RowsReturned[n].date = Now - (29 - (n - 1))
       /\ \A n \in DOMAIN RowsReturned :
            n > 1 => RowsReturned[n].date = RowsReturned[n - 1].date + 1
       /\ \A n \in DOMAIN RowsReturned :
            RowsReturned[1].date <= RowsReturned[n].date
       /\ RowsReturned[Len(RowsReturned)].date = Now

\* a response with rows: the first dated 29 days back, the last today
C23_Witness ==
  /\ Len(RowsReturned) = NumRows
  /\ RowsReturned[1].date = Now - 29
  /\ RowsReturned[NumRows].date = Now

----------------------------------------------------------------------------
(* Properties of the profile function (SpecProfile) *)

\* the last request was a GET or POST without a header, or with a token that
\* resolves to no user
Unauthenticated ==
  /\ lastProfile.method \in {"GET", "POST"}
  /\ (~lastProfile.auth.present \/ lastProfile.auth.user = 0)

\* C3, as stated: a profile GET or POST with no Authorization header, or
\* with a token that resolves to no user, is answered 401 Unauthorized, and
\* the profiles table is neither read nor written during the request.
C3_AsStated ==
  Unauthenticated
    => /\ lastProfile.resp.status = 401
       /\ lastProfile.db.op = "none"

\* the value the last POST gave to key k (its last entry of that name)
PostedValue(k) ==
  LET es == lastPost.entries
      last == CHOOSE i \in DOMAIN es :
                es[i].key = k /\ \A j \in DOMAIN es : es[j].key = k => j <= i
  IN  es[last].val

PostedKeys == {lastPost.entries[i].key : i \in DOMAIN lastPost.entries}

\* C5, as stated: after a signed-in user has POSTed a body with client-facing
\* field k set to v, a GET of the same user with no POST in between returns
\* v under the same camelCase name k.
C5_AsStated ==
  (/\ lastProfile.method = "GET"
   /\ lastProfile.auth.present
   /\ lastProfile.auth.user # 0
   /\ lastPost.user = lastProfile.auth.user
   /\ env.SUPABASE_URL /\ env.SUPABASE_SERVICE_ROLE_KEY)
    => \A k \in PostedKeys \cap ClientKeys :
         /\ lastProfile.resp.status = 200
         /\ k \in DOMAIN lastProfile.resp.body
         /\ lastProfile.resp.body[k] = PostedValue(k)

\* the rows the table holds for user u
RowsOf(u) == {r \in profiles : r["id"] = u}

C21_AsStated ==
  lastProfile.db.op = "upsert"
    => lastProfile.db.payload["user_id"] = lastProfile.auth.user

----------------------------------------------------------------------------
(* Properties of the App (SpecApp) *)

\* C6: a submit moves the App into loading, and issues a chat request, only
\* if the user is authenticated; a submit of a non-blank message by a user
\* who is not authenticated opens the authentication modal, issues no chat
\* request and does not enter loading.
C6_SubmitNeedsAuth ==
  [][ /\ (isLoading' /\ ~isLoading) => isAuthenticated
      /\ (ChatPending' > ChatPending) => isAuthenticated
      /\ (submitBit' # submitBit /\ Trim(message) # "" /\ ~isAuthenticated)
           => /\ showAuthModal'
              /\ pending' = pending
              /\ isLoading' = isLoading ]_vars

\* a submit by a user who is not authenticated has opened the modal
C6_Witness ==
  /\ submitBit
  /\ ~isAuthenticated
  /\ showAuthModal
  /\ Trim(message) # ""
  /\ ~isLoading
  /\ PendingTotal = 0

\* C7, as stated: while a chat request issued by handleSubmit is unresolved
\* the App is in the loading state, and at most one chat request is in
\* flight at any time.
C7_AsStated ==
  /\ ChatInFlight <= 1
  /\ ChatInFlight > 0 => isLoading

\* C9, as stated: when a client with no session opens /share/<id> for a
\* stored analysis, the load ends with that analysis displayed: its
\* stockData, analysisText and stats.
C9_AsStated ==
  [][ \A d \in ShareCalls :
        (pending'[d] < pending[d] /\ ~d.sent /\ d.id \in DOMAIN analyses)
          => /\ showResult'
             /\ stockData' = analyses[d.id].stockData
             /\ analysisText' = analyses[d.id].analysisText
             /\ stats' = analyses[d.id].stats ]_vars

\* the step leaves the displayed result as it was
ResultKept ==
  /\ showResult' = showResult
  /\ stockData' = stockData
  /\ analysisText' = analysisText
  /\ stats' = stats
  /\ shareId' = shareId

\* the step stores a response and shows it
ResultStored ==
  /\ showResult'
  /\ stockData' # <<>>
  /\ analysisText' # JsNull
  /\ stats' # JsNull
  /\ shareId' \in Uuids

\* C14: when a chat request of handleSubmit settles, isLoading becomes
\* false; if it settles with an error, showResult, stockData, analysisText,
\* stats and shareId keep their values, and there is no third outcome: the
\* step either keeps all of them or stores a response.  A call made without
\* a token always settles with an error.
C14_ErrorOnlyResetsLoading ==
  [][ \A d \in ChatCalls :
        pending'[d] < pending[d]
          => /\ isLoading' = FALSE
             /\ ~d.sent => ResultKept
             /\ ResultKept \/ ResultStored ]_vars

\* a chat request has settled with an error (nothing was ever stored) while
\* another one is still waiting
C14_Witness ==
  /\ ~isLoading
  /\ ChatPending = 1
  /\ ~showResult
  /\ shareId = 0
  /\ stockData = <<>>

\* C27: a submit of an empty or whitespace-only message changes nothing, in
\* every state: no chat request is issued, the authentication modal is not
\* opened, also when the user is not authenticated, and isLoading,
\* showResult, the displayed stockData, analysisText, stats and shareId, and
\* the message are as before.
C27_BlankSubmitIsNoOp ==
  [][ (submitBit' # submitBit /\ Trim(message) = "")
        => /\ pending' = pending
           /\ showAuthModal' = showAuthModal
           /\ isLoading' = isLoading
           /\ message' = message
           /\ ResultKept ]_vars

\* a user who is not authenticated has submitted a whitespace-only message;
\* the modal is closed and nothing was requested
C27_Witness ==
  /\ submitBit
  /\ message = "   "
  /\ ~isAuthenticated
  /\ ~showAuthModal
  /\ PendingTotal = 0
  /\ ~isLoading
  /\ ~showResult

\* C22: every time the App enters loading it leaves it again: the step in
\* which a chat request of handleSubmit settles, with a response or with an
\* error, sets isLoading to false and clears the message, whatever other
\* submits and responses are interleaved with it.
C22_LoadingEnds ==
  /\ [][ ChatPending' < ChatPending
           => (isLoading' = FALSE /\ message' = "") ]_vars
  /\ isLoading ~> ~isLoading

\* two submits overlapped; one has settled and stored its response, the
\* other is still waiting, and loading has been left
C22_Witness ==
  /\ ~isLoading
  /\ message = ""
  /\ ChatPending = 1
  /\ showResult
  /\ shareId \in Uuids
  /\ stockData # <<>>

\* what the App holds for the result page
Displayed ==
  [stockData |-> stockData, analysisText |-> analysisText, stats |-> stats,
   shareId |-> shareId]

\* the bundles a successful chat response can carry to the App
ChatBundles ==
  { r.body : r \in
      { resp \in
          { ChatHandler([method |-> "POST",
                         body |-> [kind |-> "object",
                                   message |-> JsStr("Should I buy AAPL?")]],
                        TRUE, reply, seed, uuid, Now).resp :
              reply \in AppLlmReplies, seed \in AppSeeds, uuid \in Uuids } :
          resp.status = 200 } }

\* the bundles a successful share load leaves: the stored analysis under the
\* id that was asked for
ShareBundles ==
  { [stockData |-> analyses[i].stockData,
     analysisText |-> analyses[i].analysisText,
     stats |-> analyses[i].stats, shareId |-> i] : i \in DOMAIN analyses }

NothingDisplayed ==
  [stockData |-> <<>>, analysisText |-> JsNull, stats |-> JsNull, shareId |-> 0]

\* C24: in every reachable state, also when a chat request and a share load
\* or two chat requests overlap and settle in any order, the stockData,
\* analysisText, stats and shareId the App holds are those of one single
\* response (or the initial empty ones).
C24_BundleNeverMixed ==
  \/ Displayed = NothingDisplayed
  \/ Displayed \in ChatBundles
  \/ Displayed \in ShareBundles

\* a chat response is displayed while a share load that overlapped it is
\* still in flight
C24_Witness ==
  /\ SumOver(pending, ShareCalls) = 1
  /\ ChatPending = 0
  /\ Displayed \in ChatBundles
  /\ showResult
  /\ ~isLoading

\* C19: the page shown is loading whenever isLoading, else result when
\* showResult, else landing; and the result page is shown only when a chat
\* or share response has been stored.
C19_ThreeRenderStates ==
  /\ RenderState \in {"landing", "loading", "result"}
  /\ isLoading => RenderState = "loading"
  /\ (~isLoading /\ showResult) => RenderState = "result"
  /\ (~isLoading /\ ~showResult) => RenderState = "landing"
  /\ RenderState = "result"
       => /\ shareId # 0
          /\ stockData # <<>>
          /\ analysisText # JsNull
          /\ stats # JsNull

\* the result page shows a shared analysis
C19_Witness ==
  /\ RenderState = "result"
  /\ shareId = 1
  /\ stockData = analyses[1].stockData

----------------------------------------------------------------------------
(* Properties of the API client (SpecClient) *)

\* C11, as stated: the promise of every public method of the API client
\* resolves, never rejects, and resolves to an object with exactly one of
\* data and error, whatever the session and whatever the function answers.
C11_AsStated ==
  lastCall.method # "none"
    => /\ lastCall.settled = "resolved"
       /\ Cardinality(DOMAIN lastCall.value \cap {"data", "error"}) = 1

StorageColumns ==
  {"user_id", "age", "risk_tolerance", "investment_goal", "investment_horizon",
   "initial_investment", "monthly_contribution", "preferred_asset_types",
   "updated_at"}

\* C20, as stated: for every profile POST sent by saveUserProfile, every key
\* the profile function passes to the upsert is one of the snake_case
\* storage columns; no camelCase client key reaches storage.
C20_AsStated ==
  (lastCall.method = "saveUserProfile" /\ lastProfile.db.op = "upsert")
    => DOMAIN lastProfile.db.payload \subseteq StorageColumns

----------------------------------------------------------------------------
(* Properties of both functions (SpecFunctions) *)

\* the provider call of the last chat request ended in an exception that
\* only the catch at the function boundary handles
ChatBoundaryCase ==
  /\ lastChat.calls = 1
  /\ \/ lastChat.reply.net = "failed"
     \/ /\ lastChat.reply.status \in 200..299
        /\ lastChat.reply.body \in
             {"text", "null", "noChoices", "emptyChoices", "contentMissing"}

\* C15: every request to the chat function and to the profile function that
\* is not OPTIONS ends with a JSON response; one that is not a success has
\* an error string in its body; an exception not handled earlier (a reply
\* without choices, a database error, an unsupported method) is answered
\* 500 by the chat function and 400 by the profile function.
C15_AlwaysAResponse ==
  /\ ChatHandled
       => /\ lastChat.resp.status # 0
          /\ lastChat.resp.status # 200
               => /\ "error" \in DOMAIN lastChat.resp.body
                  /\ lastChat.resp.body.error # <<>>
          /\ ChatBoundaryCase => lastChat.resp.status = 500
  /\ lastProfile.method \in {"GET", "POST", "PUT"}
       => /\ lastProfile.resp.status \in {200, 400}
          /\ lastProfile.resp.status # 200
               => /\ "error" \in DOMAIN lastProfile.resp.body
                  /\ lastProfile.resp.body.error # ""
          /\ (lastProfile.method = "PUT" \/ lastProfile.db.op = "select")
               => lastProfile.resp.status = 400

\* the provider answered without choices, and the request was answered 500
C15_Witness ==
  /\ lastChat.calls = 1
  /\ lastChat.reply.body = "noChoices"
  /\ lastChat.resp.status = 500
  /\ "error" \in DOMAIN lastChat.resp.body

\* C16, as stated: a function whose required environment variable is missing
\* (the API key for chat; the URL or the service-role key for profile)
\* handles no request at all.
C16_AsStated ==
  /\ ~env.DEEPSEEK_API_KEY => lastChat.req.method = "NONE"
  /\ ~(env.SUPABASE_URL /\ env.SUPABASE_SERVICE_ROLE_KEY)
       => lastProfile.method = "NONE"

----------------------------------------------------------------------------
(* Properties of the InvestmentPanel (SpecPanel) *)

\* the value a profile key has in a row of the table (0: NULL)
Stored(p, k) ==
  IF k = "preferredAssetTypes" THEN Len(p[k])
  ELSE IF p[k].type = "number" THEN p[k].num
  ELSE IF p[k].type = "string" THEN 1
  ELSE 0

\* C13, as stated: once a signed-in user has submitted a profile through the
\* InvestmentPanel, a profile GET for that user returns the submitted
\* values.
C13_AsStated ==
  [][ (/\ investmentProfile # JsNull
       /\ isAuthenticated
       /\ served' # served
       /\ lastProfile'.method = "GET"
       /\ lastProfile'.auth.present
       /\ lastProfile'.auth.user = SessionUser)
        => /\ lastProfile'.resp.status = 200
           /\ \A k \in Range(PanelKeys) :
                /\ k \in DOMAIN lastProfile'.resp.body
                /\ lastProfile'.resp.body[k] = Stored(investmentProfile, k) ]_vars

----------------------------------------------------------------------------
(* Properties of the auth effect (SpecAuth) and of sign-in (SpecSignIn) *)

\* C25, as stated: once the result of getSession and every auth-state-change
\* event have been delivered, in whatever order, isAuthenticated is true
\* exactly when the auth provider holds a session.
C25_AsStated ==
  InboxTotal = 0 => (isAuthenticated <=> session)

\* C26: handleSignIn closes the authentication modal only when no error
\* remains.  Called with an email and a password it first tries the password
\* sign-in and goes on to the sign-up only when that error says Invalid
\* login credentials; when the last call made ends in an error or an
\* exception the modal stays as it was.
C26_ClosesOnlyWithoutError ==
  /\ [][ lastSignIn'.bit # lastSignIn.bit
           => /\ (showAuthModal /\ ~showAuthModal')
                   => (lastSignIn'.closed /\ lastSignIn'.error = <<>>)
              /\ ~lastSignIn'.closed => showAuthModal' = showAuthModal ]_vars
  /\ [](/\ lastSignIn.closed
            => \A i \in DOMAIN lastSignIn.results :
                 i = Len(lastSignIn.results) => lastSignIn.results[i] = AuthOk
        /\ (lastSignIn.provider = "" /\ lastSignIn.email # ""
              /\ lastSignIn.password # "")
            => /\ lastSignIn.calls[1] = "signInWithPassword"
               /\ Len(lastSignIn.calls) = 2
                    <=> (/\ ~lastSignIn.results[1].threw
                         /\ Contains(lastSignIn.results[1].message,
                                     "Invalid login credentials"))
               /\ Len(lastSignIn.calls) = 2 => lastSignIn.calls[2] = "signUp")

\* the password sign-in was refused for its credentials, the sign-up that
\* followed failed too, and the modal is still open
C26_Witness ==
  /\ lastSignIn.calls = <<"signInWithPassword", "signUp">>
  /\ lastSignIn.error = <<"User already registered">>
  /\ ~lastSignIn.closed
  /\ showAuthModal

----------------------------------------------------------------------------
(* Properties of the InvestmentPanel form (SpecPanel) *)

\* every field of the form is filled in, with a value in the range its
\* input declares (InvestmentPanel.tsx:98-214)
CompletedInRange(p) ==
  /\ p.age.type = "number" /\ p.age.num >= 18 /\ p.age.num <= 100
  /\ p.riskTolerance.type = "number"
  /\ p.riskTolerance.num >= 1 /\ p.riskTolerance.num <= 10
  /\ p.investmentGoal.type = "string" /\ p.investmentGoal.str # ""
  /\ p.timeHorizon.type = "string" /\ p.timeHorizon.str # ""
  /\ p.initialInvestment.type = "number" /\ p.initialInvestment.num >= 0
  /\ p.monthlyContribution.type = "number" /\ p.monthlyContribution.num >= 0
  /\ Len(p.preferredAssetTypes) >= 1

\* C28, as stated: a submit of a completed form whose values lie in the
\* ranges its inputs declare (age 18 to 100, riskTolerance 1 to 10, a goal
\* and a time horizon chosen, initialInvestment >= 0, monthlyContribution
\* >= 0, at least one asset type) passes the profile to onSubmit.
C28_AsStated ==
  [][ (panelBit' # panelBit /\ CompletedInRange(profile))
        => investmentProfile' = profile ]_vars

====
